---------------------------- MODULE Spec2Model ----------------------------
(***************************************************************************)
(* chocolate/sample/random.py : class Random (the random sampler).         *)
(*                                                                         *)
(* Each process owns one Random instance and calls next() on it.  The      *)
(* body of next() runs inside `with self.conn.lock()`.  The generator is   *)
(* a numpy RandomState (MT19937): a deterministic stream of machine words  *)
(* fixed by the seed, of which                                             *)
(*   - rand() takes two words for every double it returns,                 *)
(*   - choice(a) takes the words randint(0, len(a)) takes: none when       *)
(*     len(a) = 1, otherwise one word per try of a masked rejection loop.  *)
(* Words are narrowed to two bits here; the stream of a seed is the top    *)
(* two bits of a full-period congruential sequence started at the seed.    *)
(*                                                                         *)
(* A process that is started again constructs a new sampler (drawn = 0, a  *)
(* generator built anew from the seed): it is one more element of Procs    *)
(* that has not called next() yet.                                         *)
(***************************************************************************)
EXTENDS Integers, Sequences, FiniteSets, TLC

\* ----------------------------------------------------------------- bounds
NumProcs == 2
MaxL == 4
MaxDim == 2
NumSeeds == 1
MaxCalls == 4

Procs == 1..NumProcs
Seeds == 0..(NumSeeds - 1)
\* generator 0 is a handle shared by whoever was constructed with it (a
\* RandomState instance passed in, or numpy.random when random_state is None);
\* generator p is the RandomState(seed) built by process p's constructor.
SharedGen == 0
GenIds == {SharedGen} \cup Procs

NoProc == 0

VARIABLES
    space,      \* the search space: [isdiscrete, n (len(space)), l (len(grid))]
    connOf,     \* connOf[p]: the store process p's sampler is connected to
    rsArg,      \* rsArg[p]: random_state argument of p's constructor
    store,      \* store[c]: the results of store c, in insertion order
    lock,       \* lock[c]: the process inside conn.lock() of store c, or NoProc
    gen,        \* gen[g]: [seed, pos]: words taken from the stream so far
    drawn,      \* drawn[p]: self.drawn
    pc,         \* pc[p]: where p stands in next()
    i,          \* i[p]: the local i of next()
    token,      \* token[p]: the local token (its _chocolate_id)
    out,        \* out[p]: the local out
    log,        \* log[p]: what p's calls of next() returned or raised, in order
    ticket      \* ticket[p]: calls that entered the store's scope before p's

vars == <<space, connOf, rsArg, store, lock, gen, drawn, pc, i, token, out,
          log, ticket>>

\* --------------------------------------------------------------- generator
RECURSIVE LcgState(_, _)
LcgState(seed, k) ==
    IF k = 0 THEN seed ELSE (5 * LcgState(seed, k - 1) + 3) % 16

\* the word the generator seeded with `seed` yields as its (pos+1)-th word
Word(seed, pos) == LcgState(seed, (pos % 16) + 1) \div 4

\* rk_double: one double is made of two consecutive words
Double(seed, pos) == 4 * Word(seed, pos) + Word(seed, pos + 1)

WordsPerDouble == 2

\* random_state.rand(d1, ..., dk): d1*...*dk doubles; here the count of doubles
RandCost(count) == WordsPerDouble * count

\* random_state.rand(n): the n doubles read at pos
RandVector(seed, pos, n) ==
    [k \in 1..n |-> Double(seed, pos + WordsPerDouble * (k - 1))]

RECURSIVE Mask(_, _)
Mask(rng, m) == IF m >= rng THEN m ELSE Mask(rng, 2 * m + 1)

\* randint(0, n): [idx, pos] after the masked rejection loop
\* (rng = n - 1; rng = 0 returns 0 and takes no word)
RECURSIVE Interval(_, _, _, _)
Interval(seed, pos, rng, mask) ==
    LET val == Word(seed, pos) % (mask + 1)
    IN  IF val <= rng THEN [idx |-> val, pos |-> pos + 1]
        ELSE Interval(seed, pos + 1, rng, mask)

RandInt(seed, pos, n) ==
    IF n = 1 THEN [idx |-> 0, pos |-> pos]
    ELSE Interval(seed, pos, n - 1, Mask(n - 1, 1))

\* random_state.choice(choices): [val, pos]
Choice(seed, pos, choices) ==
    LET r == RandInt(seed, pos, Len(choices))
    IN  [val |-> choices[r.idx + 1], pos |-> r.pos]

\* ------------------------------------------------------------------- store
Range(s) == {s[k] : k \in DOMAIN s}

\* conn.count_results()
CountResults(c) == Len(store[c])

\* conn.all_results(): every result, in an order the store chooses
AllResults(c) ==
    {[k \in 1..Len(store[c]) |-> store[c][f[k]]] :
        f \in Permutations(1..Len(store[c]))}

\* ------------------------------------------------------------------- space
RECURSIVE SortedSeq(_)
SortedSeq(S) ==
    IF S = {} THEN <<>>
    ELSE LET m == CHOOSE x \in S : \A y \in S : x <= y
         IN  <<m>> \o SortedSeq(S \ {m})

\* list(set(range(l)) - set(drawn)), not sorted: the free cells come in an
\* order that follows the order the store listed its records in
ChoicesUnsorted(l, drawnIds) ==
    LET free == SortedSeq((0..(l - 1)) \ Range(drawnIds))
        n == Len(free)
    IN  IF drawnIds # <<>> /\ drawnIds[1] < drawnIds[Len(drawnIds)]
        THEN [k \in 1..n |-> free[n + 1 - k]]
        ELSE free

\* the cells already drawn are not taken out of the choices
ChoicesForgetDrawn(l, drawnIds) == SortedSeq(0..(l - 1))

\* sorted(set(range(l)) - set(drawn))
Choices(l, drawnIds) == SortedSeq((0..(l - 1)) \ Range(drawnIds))

\* subspace_grids[sample]: the grid point of an index (one dimension: idx/l)
GridPoint(l, idx) == <<[num |-> idx, den |-> l]>>

DiscreteSpaces == {[isdiscrete |-> TRUE, n |-> 1, l |-> l] : l \in 1..MaxL}
ContinuousSpaces == {[isdiscrete |-> FALSE, n |-> n, l |-> 0] : n \in 1..MaxDim}
Spaces == DiscreteSpaces \cup ContinuousSpaces


Conns == Procs

\* the random_state argument: an existing generator handle (or None, the
\* process-wide numpy.random), or a seed value
RsArgs ==
    {[handle |-> TRUE, seed |-> 0]} \cup
    {[handle |-> FALSE, seed |-> s] : s \in Seeds}

\* the random_state argument is ignored: every sampler uses numpy.random
RsOfAmbient(p) == SharedGen

\* self.random_state of process p's sampler
RsOf(p) == IF rsArg[p].handle THEN SharedGen ELSE p

Max(a, b) == IF a >= b THEN a ELSE b

RECURSIVE SumOver(_, _)
SumOver(f, S) ==
    IF S = {} THEN 0
    ELSE LET x == CHOOSE y \in S : TRUE
         IN  f[x] + SumOver(f, S \ {x})

\* calls of next() that have entered the scope of store c so far
Entered(c) ==
    SumOver([p \in Procs |->
                IF connOf[p] # c THEN 0
                ELSE Len(log[p]) + IF pc[p] = "idle" THEN 0 ELSE 1],
            Procs)

\* calls of next() begun so far, by all processes
Started ==
    SumOver([p \in Procs |-> Len(log[p]) + IF pc[p] = "idle" THEN 0 ELSE 1],
            Procs)

NoToken == -1

Raised(kind) == [res |-> kind, id |-> NoToken, point |-> <<>>]
Returned(tok, pt) == [res |-> "ok", id |-> tok, point |-> pt]

\* ---------------------------------------------------------- construction
\* Random.__init__: self.random_state and self.drawn
InitCommon(conns) ==
    /\ space \in Spaces
    /\ connOf = conns
    /\ store = [c \in Conns |-> <<>>]
    /\ lock = [c \in Conns |-> NoProc]
    /\ \E sharedSeed \in Seeds :
          /\ (\A p \in Procs : ~rsArg[p].handle) => sharedSeed = 0
          /\ gen = [g \in GenIds |->
                       [seed |-> IF g = SharedGen THEN sharedSeed
                                 ELSE rsArg[g].seed,
                        pos |-> 0]]
    /\ drawn = [p \in Procs |-> 0]
    /\ pc = [p \in Procs |-> "idle"]
    /\ i = [p \in Procs |-> 0]
    /\ token = [p \in Procs |-> NoToken]
    /\ out = [p \in Procs |-> <<>>]
    /\ log = [p \in Procs |-> <<>>]
    /\ ticket = [p \in Procs |-> 0]

\* every sampler is connected to the same store
Init ==
    /\ rsArg \in [Procs -> RsArgs]
    /\ InitCommon([p \in Procs |-> 1])

\* ------------------------------------------------------------ conn.lock()
\* entering the store's exclusive scope: blocks while another holds it
Acquire(c, p) ==
    /\ lock[c] = NoProc
    /\ lock' = [lock EXCEPT ![c] = p]

\* leaving the scope (the with statement's exit, on return and on raise)
Release(c, p) == lock' = [lock EXCEPT ![c] = NoProc]

\* ------------------------------------------------------------------ next()
\* next() without the with statement: the body runs outside the scope
EnterNoLock(p) ==
    /\ pc[p] = "idle"
    /\ Started < MaxCalls
    /\ ticket' = [ticket EXCEPT ![p] = Entered(connOf[p])]
    /\ pc' = [pc EXCEPT ![p] = "count"]
    /\ UNCHANGED <<space, connOf, rsArg, store, lock, gen, drawn, i, token,
                   out, log>>

\* with self.conn.lock():
Enter(p) ==
    /\ pc[p] = "idle"
    /\ Started < MaxCalls
    /\ Acquire(connOf[p], p)
    /\ ticket' = [ticket EXCEPT ![p] = Entered(connOf[p])]
    /\ pc' = [pc EXCEPT ![p] = "count"]
    /\ UNCHANGED <<space, connOf, rsArg, store, gen, drawn, i, token, out,
                   log>>

\* i = self.conn.count_results()
Count(p) ==
    /\ pc[p] = "count"
    /\ i' = [i EXCEPT ![p] = CountResults(connOf[p])]
    /\ pc' = [pc EXCEPT ![p] = "branch"]
    /\ UNCHANGED <<space, connOf, rsArg, store, lock, gen, drawn, token, out,
                   log, ticket>>

\* an exception leaves next() with the scope still held
RaiseHoldingScope(p, kind) ==
    /\ UNCHANGED lock
    /\ log' = [log EXCEPT ![p] = Append(@, Raised(kind))]
    /\ pc' = [pc EXCEPT ![p] = "idle"]
    /\ i' = [i EXCEPT ![p] = 0]
    /\ token' = [token EXCEPT ![p] = NoToken]
    /\ out' = [out EXCEPT ![p] = <<>>]
    /\ ticket' = [ticket EXCEPT ![p] = 0]

\* an exception leaves next(): the scope is released and nothing is returned
Raise(p, kind) ==
    /\ Release(connOf[p], p)
    /\ log' = [log EXCEPT ![p] = Append(@, Raised(kind))]
    /\ pc' = [pc EXCEPT ![p] = "idle"]
    /\ i' = [i EXCEPT ![p] = 0]
    /\ token' = [token EXCEPT ![p] = NoToken]
    /\ out' = [out EXCEPT ![p] = <<>>]
    /\ ticket' = [ticket EXCEPT ![p] = 0]

\* if i > l
IsExhaustedOffByOne(count, l) == count > l

\* if i >= l
IsExhausted(count, l) == count >= l

\* the burn is done before the check `if i >= l`
ExhaustedAfterBurn(p) ==
    /\ pc[p] = "branch"
    /\ space.isdiscrete
    /\ IsExhausted(i[p], space.l)
    /\ gen' = [gen EXCEPT ![RsOf(p)].pos =
                   @ + RandCost(Max(i[p] - drawn[p], 0))]
    /\ Raise(p, "StopIteration")
    /\ UNCHANGED <<space, connOf, rsArg, store, drawn>>

\* if i >= l: raise StopIteration
Exhausted(p) ==
    /\ pc[p] = "branch"
    /\ space.isdiscrete
    /\ IsExhausted(i[p], space.l)
    /\ Raise(p, "StopIteration")
    /\ UNCHANGED <<space, connOf, rsArg, store, gen, drawn>>

\* position of the generator after range(i - self.drawn) calls of rand()
BurnDiscrete(pos, count, drawnBefore) ==
    pos + RandCost(Max(count - drawnBefore, 0))

\* self.drawn += 1: only this sampler's own draws are counted
NextDrawnIncrement(d, count) == d + 1

\* self.drawn += i + 1: the count is added to what was drawn
NextDrawnAccumulate(d, count) == d + count + 1

\* self.drawn += i - self.drawn + 1
NextDrawn(d, count) == d + (count - d) + 1

\* the discrete branch up to out = self.subspace_grids[sample]
SampleDiscrete(p) ==
    /\ pc[p] = "branch"
    /\ space.isdiscrete
    /\ ~IsExhausted(i[p], space.l)
    /\ LET g == RsOf(p)
           burnt == BurnDiscrete(gen[g].pos, i[p], drawn[p])
       IN  \E enum \in AllResults(connOf[p]) :
             LET ids == [k \in DOMAIN enum |-> enum[k].id]
                 choices == Choices(space.l, ids)
             IN  IF choices = <<>>
                 THEN \* choice() of an empty list raises ValueError
                      /\ gen' = [gen EXCEPT ![g].pos = burnt]
                      /\ Raise(p, "ValueError")
                      /\ UNCHANGED drawn
                 ELSE LET c == Choice(gen[g].seed, burnt, choices)
                      IN  /\ gen' = [gen EXCEPT ![g].pos = c.pos]
                          /\ drawn' = [drawn EXCEPT
                                         ![p] = NextDrawn(@, i[p])]
                          /\ token' = [token EXCEPT ![p] = c.val]
                          /\ out' = [out EXCEPT
                                       ![p] = GridPoint(space.l, c.val)]
                          /\ pc' = [pc EXCEPT ![p] = "insert"]
                          /\ UNCHANGED <<lock, i, log, ticket>>
    /\ UNCHANGED <<space, connOf, rsArg, store>>

\* the continuous branch: token, burn, out = rand(len(space)), drawn
SampleContinuous(p) ==
    /\ pc[p] = "branch"
    /\ ~space.isdiscrete
    /\ LET g == RsOf(p)
           n == space.n
       IN  IF i[p] - drawn[p] < 0
           THEN \* rand(n, negative) raises ValueError
                /\ Raise(p, "ValueError")
                /\ UNCHANGED <<gen, drawn>>
           ELSE LET burnt == gen[g].pos + RandCost(n * (i[p] - drawn[p]))
                IN  /\ token' = [token EXCEPT ![p] = i[p]]
                    /\ out' = [out EXCEPT
                                 ![p] = RandVector(gen[g].seed, burnt, n)]
                    /\ gen' = [gen EXCEPT ![g].pos = burnt + RandCost(n)]
                    /\ drawn' = [drawn EXCEPT ![p] = NextDrawn(@, i[p])]
                    /\ pc' = [pc EXCEPT ![p] = "insert"]
                    /\ UNCHANGED <<lock, i, log, ticket>>
    /\ UNCHANGED <<space, connOf, rsArg, store>>

\* entry = names zipped with out, updated with token
Entry(tok, vals) == [id |-> tok, vals |-> vals]

\* the entry is built and never handed to the store
InsertSkipped(p) ==
    /\ pc[p] = "insert"
    /\ pc' = [pc EXCEPT ![p] = "return"]
    /\ UNCHANGED <<space, connOf, rsArg, store, lock, gen, drawn, i, token,
                   out, log, ticket>>

\* self.conn.insert_result(entry)
Insert(p) ==
    /\ pc[p] = "insert"
    /\ store' = [store EXCEPT
                   ![connOf[p]] = Append(@, Entry(token[p], out[p]))]
    /\ pc' = [pc EXCEPT ![p] = "return"]
    /\ UNCHANGED <<space, connOf, rsArg, lock, gen, drawn, i, token, out,
                   log, ticket>>

\* the with block ends; return token, self.space(out)
Return(p) ==
    /\ pc[p] = "return"
    /\ Release(connOf[p], p)
    /\ log' = [log EXCEPT ![p] = Append(@, Returned(token[p], out[p]))]
    /\ pc' = [pc EXCEPT ![p] = "idle"]
    /\ i' = [i EXCEPT ![p] = 0]
    /\ token' = [token EXCEPT ![p] = NoToken]
    /\ out' = [out EXCEPT ![p] = <<>>]
    /\ ticket' = [ticket EXCEPT ![p] = 0]
    /\ UNCHANGED <<space, connOf, rsArg, store, gen, drawn>>

Next ==
    \E p \in Procs :
        \/ Enter(p)
        \/ Count(p)
        \/ Exhausted(p)
        \/ SampleDiscrete(p)
        \/ SampleContinuous(p)
        \/ Insert(p)
        \/ Return(p)

Spec == Init /\ [][Next]_vars

\* every sampler is built from a seed value and connected to a store of its
\* own
InitDet ==
    /\ rsArg \in [Procs -> {a \in RsArgs : ~a.handle}]
    /\ InitCommon([p \in Procs |-> p])

SpecDet == InitDet /\ [][Next]_vars


\* --------------------------------------------------------- exploration loop
\* every sampler explores a grid on the same store, each with a generator of
\* its own built from a seed value
InitLoop ==
    /\ Init
    /\ space.isdiscrete
    /\ \A p \in Procs : ~rsArg[p].handle

\* the loop of a process around next(): it calls again as long as no call of
\* its own has raised
EnterLoop(p) ==
    /\ pc[p] = "idle"
    /\ log[p] # <<>> => log[p][Len(log[p])].res = "ok"
    /\ Acquire(connOf[p], p)
    /\ ticket' = [ticket EXCEPT ![p] = Entered(connOf[p])]
    /\ pc' = [pc EXCEPT ![p] = "count"]
    /\ UNCHANGED <<space, connOf, rsArg, store, gen, drawn, i, token, out,
                   log>>

\* the steps of process p in its loop
ProcLoop(p) ==
    \/ EnterLoop(p)
    \/ Count(p)
    \/ Exhausted(p)
    \/ SampleDiscrete(p)
    \/ Insert(p)
    \/ Return(p)

NextLoop == \E p \in Procs : ProcLoop(p)

\* a process that can take a step eventually takes one; a process waiting for
\* the scope gets it if the scope stays free
SpecLoop ==
    /\ InitLoop
    /\ [][NextLoop]_vars
    /\ \A p \in Procs : WF_vars(ProcLoop(p))


\* ---------------------------------------------------------- reference run
\* what one sampler built from `seed` does alone on an empty store in its
\* first k calls of next() (k <= l on a grid): here i = self.drawn at every
\* call, so nothing is burnt.  [recs: the store, pos: the generator]
RECURSIVE SoloRun(_, _, _)
SoloRun(sp, seed, k) ==
    IF k = 0 THEN [recs |-> <<>>, pos |-> 0]
    ELSE LET prev == SoloRun(sp, seed, k - 1)
         IN  IF sp.isdiscrete
             THEN LET ids == [j \in DOMAIN prev.recs |-> prev.recs[j].id]
                      c == Choice(seed, prev.pos, Choices(sp.l, ids))
                  IN  [recs |-> Append(prev.recs,
                                       Entry(c.val, GridPoint(sp.l, c.val))),
                       pos |-> c.pos]
             ELSE [recs |-> Append(prev.recs,
                                   Entry(k - 1,
                                         RandVector(seed, prev.pos, sp.n))),
                   pos |-> prev.pos + RandCost(sp.n)]

\* -------------------------------------------------------------- properties
Ids(recs) == {recs[k].id : k \in DOMAIN recs}

OkEntries(p) == {k \in DOMAIN log[p] : log[p][k].res = "ok"}

SameSeedOwners(P) ==
    /\ \A p \in P : ~rsArg[p].handle
    /\ \A p, q \in P : rsArg[p].seed = rsArg[q].seed

C2_SameAsSolo ==
    SameSeedOwners(Procs) =>
        store[1] = SoloRun(space, rsArg[1].seed, Len(store[1])).recs

\* C2 holds where the space is not a grid
C2_SameAsSoloContinuous ==
    (SameSeedOwners(Procs) /\ ~space.isdiscrete) =>
        store[1] = SoloRun(space, rsArg[1].seed, Len(store[1])).recs

\* the reference run is what a sampler calling alone does
SoloRunIsSolo ==
    \A p \in Procs :
        ((\A q \in Procs \ {p} : log[q] = <<>> /\ pc[q] = "idle")
            /\ ~rsArg[p].handle) =>
        store[1] = SoloRun(space, rsArg[p].seed, Len(store[1])).recs


Last(q) == q[Len(q)]

\* p's call of next() ends in this step
Ends(p) == Len(log'[p]) = Len(log[p]) + 1

\* p's call of next() fails with StopIteration in this step
Fails(p) == Ends(p) /\ Last(log'[p]).res = "StopIteration"

\* p's call of next() takes a branch in this step: it raises or it draws
Decides(p) == pc[p] = "branch" /\ pc'[p] # "branch"

\* every cell of the grid is recorded in store c
AllRecorded(c) == (0..(space.l - 1)) \subseteq Ids(store[c])

\* C3: a call of next() fails with StopIteration exactly when the space is a
\* grid and every cell 0..l-1 is already recorded in the store; it fails in
\* no other case (never on a continuous space, never while a cell is free).
C3_ExhaustedIff ==
    [][\A p \in Procs :
          /\ Decides(p) =>
                (Fails(p) <=> (space.isdiscrete /\ AllRecorded(connOf[p])))
          /\ (Ends(p) /\ Last(log'[p]).res # "ok") =>
                (Fails(p) /\ Decides(p))]_vars

\* a failed call on a full grid, and a call that went through with one cell
\* left
C3_Witness ==
    \E p \in Procs :
        /\ space.isdiscrete
        /\ space.l >= 2
        /\ \E k \in DOMAIN log[p] : log[p][k].res = "StopIteration"
        /\ \E q \in Procs : \E k \in OkEntries(q) :
              log[q][k].id = Last(store[1]).id

Completed == SumOver([p \in Procs |-> Len(log[p])], Procs)
Succeeded == SumOver([p \in Procs |-> Cardinality(OkEntries(p))], Procs)

Min(a, b) == IF a <= b THEN a ELSE b

\* C4: on a grid of l cells and a store that starts empty, the first l calls
\* of next() succeed, their ids are l different values that cover 0..l-1,
\* and every later call fails with StopIteration.
C4_ExhaustsAfterL ==
    space.isdiscrete =>
        /\ Succeeded = Min(Completed, space.l)
        /\ \A p \in Procs : \A k \in DOMAIN log[p] :
              log[p][k].res \in {"ok", "StopIteration"}
        /\ Succeeded = space.l =>
              /\ Len(store[1]) = space.l
              /\ Ids(store[1]) = 0..(space.l - 1)
              /\ UNION {{log[p][k].id : k \in OkEntries(p)} : p \in Procs}
                    = 0..(space.l - 1)

\* l calls went through on the largest grid MaxCalls calls can exhaust, and
\* the next one failed
C4_Witness ==
    /\ space.isdiscrete
    /\ space.l + 1 = MaxCalls
    /\ Succeeded = space.l
    /\ Completed = space.l + 1

\* C5: on a continuous space, whatever the samplers sharing the store and
\* the interleaving, the k-th record of the store has id k-1 (the ids are
\* exactly 0..size-1, one record each), and the id of a call is the number
\* of calls that entered the scope before it.
C5_ContinuousIds ==
    ~space.isdiscrete =>
        /\ \A c \in Conns : \A k \in DOMAIN store[c] : store[c][k].id = k - 1
        /\ \A p \in Procs :
              pc[p] \in {"insert", "return"} => token[p] = ticket[p]

\* two samplers have records in a continuous store and a third call holds
\* its id
C5_Witness ==
    /\ ~space.isdiscrete
    /\ \A p \in Procs : OkEntries(p) # {}
    /\ \E p \in Procs : pc[p] = "insert" /\ token[p] >= 2


\* C6: when the store holds the k records a run from scratch with seed s
\* made in its first k calls (k below the grid size), the first call of a
\* fresh sampler built with seed s draws the id and the point that run draws
\* in its (k+1)-th call.
C6_RestartSameDraw ==
    [][\A p \in Procs :
          (/\ pc[p] = "branch" /\ pc'[p] = "insert"
           /\ space.isdiscrete
           /\ ~rsArg[p].handle
           /\ drawn[p] = 0 /\ gen[p].pos = 0
           /\ store[connOf[p]] = SoloRun(space, rsArg[p].seed, i[p]).recs)
          => Entry(token'[p], out'[p])
                = Last(SoloRun(space, rsArg[p].seed, i[p] + 1).recs)]_vars

\* C7: two fresh samplers built with the same seed value over the same
\* space, each on an empty store of its own, return the same (token, point)
\* call after call and leave the same records, to the length both have run.
C7_Deterministic ==
    \A p, q \in Procs :
        (p # q /\ SameSeedOwners({p, q})) =>
            /\ \A k \in DOMAIN log[p] \cap DOMAIN log[q] :
                  log[p][k] = log[q][k]
            /\ \A k \in DOMAIN store[connOf[p]] \cap DOMAIN store[connOf[q]] :
                  store[connOf[p]][k] = store[connOf[q]][k]

\* both samplers have made two calls, each on its own store
C7_Witness ==
    /\ SameSeedOwners(Procs)
    /\ \A p \in Procs : connOf[p] = p /\ Len(log[p]) >= 2 /\ OkEntries(p) # {}

\* C8: a call of next() that returns has added exactly one record to the
\* store (the count it read plus one, the records before it untouched, the
\* new one carrying the returned token and values); a call that fails with
\* StopIteration has added none; a call ends in no other way.
C8_OneInsertPerSuccess ==
    [][/\ \A c \in Conns :
             /\ Len(store'[c]) \in {Len(store[c]), Len(store[c]) + 1}
             /\ SubSeq(store'[c], 1, Len(store[c])) = store[c]
       /\ \A p \in Procs :
             Ends(p) =>
                LET e == Last(log'[p])
                    recs == store[connOf[p]]
                IN  /\ store' = store
                    /\ e.res \in {"ok", "StopIteration"}
                    /\ e.res = "ok" =>
                          /\ Len(recs) = i[p] + 1
                          /\ Last(recs) = Entry(e.id, e.point)
                    /\ e.res = "StopIteration" => Len(recs) = i[p]]_vars

\* one sampler had calls return and a call fail
C8_Witness ==
    \E p \in Procs :
        /\ Cardinality(OkEntries(p)) >= 2
        /\ \E k \in DOMAIN log[p] : log[p][k].res = "StopIteration"

\* C9: between the count a caller reads and its own insert the store's count
\* does not move: at the insert it is the i read, after it i + 1.
C9_CountStable ==
    \A p \in Procs :
        /\ pc[p] \in {"branch", "insert"} => Len(store[connOf[p]]) = i[p]
        /\ pc[p] = "return" => Len(store[connOf[p]]) = i[p] + 1

\* a caller is about to insert after other samplers' inserts, the others
\* outside the scope
C9_Witness ==
    \E p \in Procs :
        /\ pc[p] = "insert"
        /\ i[p] >= 2
        /\ \A q \in Procs \ {p} : OkEntries(q) # {} /\ connOf[q] = connOf[p]

\* C10: the scope is held only by a caller that is inside next(); when every
\* call has returned or failed (StopIteration included) the scope is free.
C10_ScopeReleased ==
    \A c \in Conns :
        /\ lock[c] # NoProc => (pc[lock[c]] # "idle" /\ connOf[lock[c]] = c)
        /\ (\A p \in Procs : connOf[p] = c => pc[p] = "idle")
              => lock[c] = NoProc

\* after a call failed with StopIteration another caller is inside the scope
C10_Witness ==
    \E p, q \in Procs :
        /\ p # q
        /\ \E k \in DOMAIN log[p] : log[p][k].res = "StopIteration"
        /\ lock[connOf[p]] = q
        /\ pc[q] = "branch"

\* generator words one step (one record of the store) stands for: one scalar
\* draw on a grid, len(space) scalar draws on a continuous space
StepWords == RandCost(IF space.isdiscrete THEN 1 ELSE space.n)

\* C11: after every completed call of next(), returned or failed, a sampler
\* that owns its generator has taken from it drawn step-costs since it was
\* built: drawn scalar draws on a grid (burns and choices alike), n x drawn
\* scalar draws on a continuous space of n dimensions.
C11_EntropyIsDrawn ==
    \A p \in Procs :
        (~rsArg[p].handle /\ pc[p] = "idle") =>
            gen[p].pos = StepWords * drawn[p]

\* C11 holds where the space is not a grid
C11_EntropyIsDrawnContinuous ==
    \A p \in Procs :
        (~rsArg[p].handle /\ pc[p] = "idle" /\ ~space.isdiscrete) =>
            gen[p].pos = StepWords * drawn[p]

\* p's call of next() draws in this step (it goes on to insert)
Draws(p) == pc[p] = "branch" /\ pc'[p] = "insert"

\* C12: the drawn counter of a sampler never decreases, whatever the calls
\* and the interleaving with other samplers; it moves only when a call
\* draws, and is then i + 1 for the count i read in that call.
C12_DrawnIncreases ==
    [][\A p \in Procs :
          /\ drawn'[p] >= drawn[p]
          /\ drawn'[p] # drawn[p] => Draws(p)
          /\ Draws(p) => (drawn'[p] = i[p] + 1 /\ drawn'[p] > drawn[p])]_vars

\* a sampler's counter stands beyond its own draws: it stepped over the
\* draws of another sampler
C12_Witness ==
    \E p \in Procs :
        /\ pc[p] = "idle"
        /\ Cardinality(OkEntries(p)) = 1
        /\ drawn[p] >= 2

\* position of p's generator once the burn of its call is done, before the
\* draw: (i - drawn) calls of rand() on a grid, rand(n, i - drawn) otherwise
AfterBurn(p) ==
    IF space.isdiscrete
    THEN BurnDiscrete(gen[RsOf(p)].pos, i[p], drawn[p])
    ELSE gen[RsOf(p)].pos + RandCost(space.n * (i[p] - drawn[p]))

\* p's call stands before its burn and will draw
AboutToDraw(p) ==
    /\ pc[p] = "branch"
    /\ space.isdiscrete => ~IsExhausted(i[p], space.l)

\* C13: a call that draws first throws away (i - drawn) scalar draws on a
\* grid, n x (i - drawn) on a continuous space, so that at the draw a
\* generator the sampler owns has given exactly what it would have given had
\* this sampler made all i earlier draws itself, whoever made them.
C13_BurnRestoresPosition ==
    \A p \in Procs :
        (~rsArg[p].handle /\ AboutToDraw(p)) =>
            AfterBurn(p) = SoloRun(space, rsArg[p].seed, i[p]).pos

\* C13 holds where the space is not a grid
C13_BurnRestoresPositionContinuous ==
    \A p \in Procs :
        (~rsArg[p].handle /\ AboutToDraw(p) /\ ~space.isdiscrete) =>
            AfterBurn(p) = SoloRun(space, rsArg[p].seed, i[p]).pos

\* the ids of the records, in the order they are listed in
IdsOf(enum) == [k \in DOMAIN enum |-> enum[k].id]

\* the cell p's call draws when the store lists its records as enum
Drawn(p, enum) ==
    Choice(gen[RsOf(p)].seed, AfterBurn(p),
           Choices(space.l, IdsOf(enum))).val

\* C14: on a grid the cell a call draws depends on the state of the
\* generator and on the set of recorded ids alone: for the same generator
\* and the same records, every order in which the store may list its records
\* gives the same cell.
C14_OrderIndependent ==
    \A p \in Procs :
        (space.isdiscrete /\ AboutToDraw(p)) =>
            LET cell == Drawn(p, store[connOf[p]])
            IN  \A enum \in AllResults(connOf[p]) : Drawn(p, enum) = cell

\* a call is about to draw among several free cells from a store that can
\* list its records in more than one order
C14_Witness ==
    \E p \in Procs :
        /\ space.isdiscrete
        /\ AboutToDraw(p)
        /\ Len(store[connOf[p]]) >= 2
        /\ space.l - i[p] >= 2

\* process p is inside the exclusive scope of its store
InScope(p) == lock[connOf[p]] = p

\* the samplers that burn and draw on generator g
UsersOf(g) == {p \in Procs : RsOf(p) = g}

\* C15: a generator moves only in a step of a sampler that uses it and holds
\* the exclusive scope of its store at its burn and draw, and among the
\* samplers of one store at most one is at its burn and draw on a generator
\* at any time, samplers built on one shared handle included.
C15_GeneratorInScope ==
    [][\A g \in GenIds :
          /\ gen'[g] # gen[g] =>
                \E p \in UsersOf(g) :
                    /\ InScope(p)
                    /\ pc[p] = "branch"
                    /\ pc'[p] # "branch"
          /\ \A p, q \in UsersOf(g) :
                (pc[p] = "branch" /\ pc[q] = "branch" /\ connOf[p] = connOf[q])
                    => p = q]_vars

\* two samplers built on the shared handle have both drawn from it
C15_Witness ==
    /\ \A p \in Procs : rsArg[p].handle /\ OkEntries(p) # {}
    /\ \A p, q \in Procs : connOf[p] = connOf[q]
    /\ gen[SharedGen].pos > 0

\* a step of p's call before its burn and draw: entering the scope, reading
\* the count, or leaving with StopIteration
BeforeBurn(p) ==
    \/ pc[p] \in {"idle", "count"} /\ pc'[p] # pc[p]
    \/ Fails(p)

\* C16: a call of next() that ends with StopIteration changes nothing in the
\* sampler: none of its steps (entering the scope, reading the count, the
\* check `i >= l` that raises) moves the sampler's drawn counter or its
\* generator, so failing calls, however many, leave both where they were.
C16_FailureChangesNothing ==
    [][\A p \in Procs :
          BeforeBurn(p) =>
              /\ drawn'[p] = drawn[p]
              /\ gen'[RsOf(p)] = gen[RsOf(p)]]_vars

\* a sampler that is behind the store (a burn would be due) has failed twice
C16_Witness ==
    \E p \in Procs :
        /\ pc[p] = "idle"
        /\ drawn[p] < Len(store[connOf[p]])
        /\ Cardinality({k \in DOMAIN log[p] :
                           log[p][k].res = "StopIteration"}) >= 2

\* C17: in every call of next(), under any interleaving of the samplers of
\* one store (records are never removed from it), the sampler's drawn counter
\* is at most the count i the call has read, so the number of draws to burn,
\* i - drawn, is never negative.
C17_DrawnAtMostCount ==
    \A p \in Procs :
        pc[p] = "branch" =>
            /\ drawn[p] <= i[p]
            /\ i[p] - drawn[p] >= 0

\* a sampler that has drawn before reads a count that others have raised
C17_Witness ==
    \E p \in Procs :
        /\ pc[p] = "branch"
        /\ drawn[p] > 0
        /\ i[p] > drawn[p]

\* C18: whenever a call on a grid reaches its choice (the count i it read is
\* below l), the list of cells not yet recorded is not empty, and, all
\* records having been inserted by samplers on this grid, it has exactly
\* l - i cells, whichever way the store lists its records.
C18_ChoicesLeft ==
    \A p \in Procs :
        (space.isdiscrete /\ AboutToDraw(p)) =>
            \A enum \in AllResults(connOf[p]) :
                /\ Choices(space.l, IdsOf(enum)) # <<>>
                /\ Len(Choices(space.l, IdsOf(enum))) = space.l - i[p]

\* a call reaches its choice with records in the store and one cell left
C18_Witness ==
    \E p \in Procs :
        /\ space.isdiscrete
        /\ AboutToDraw(p)
        /\ i[p] >= 2
        /\ space.l - i[p] = 1

\* process p's loop has ended: its last call raised StopIteration
GotExhausted(p) ==
    /\ pc[p] = "idle"
    /\ log[p] # <<>>
    /\ Last(log[p]).res = "StopIteration"

\* the store holds l records and every process has received StopIteration
AllDone ==
    /\ \A c \in Range(connOf) : Len(store[c]) = space.l
    /\ \A p \in Procs : GotExhausted(p)

\* C19: on a grid of l cells, with every process calling next() on its own
\* sampler against one shared store until a call fails, and under weak
\* fairness of the processes' steps: eventually the store holds exactly l
\* records and every process has received StopIteration, and from then on
\* the store never changes.
C19_LoopTerminates ==
    /\ <>[]AllDone
    /\ [][AllDone => store' = store]_vars

\* the largest grid is full, filled by all the processes together, and every
\* process has been told so
C19_Witness ==
    /\ AllDone
    /\ space.l = MaxL
    /\ \A p \in Procs : OkEntries(p) # {}

============================================================================
